---- MODULE Spec2Model ----
(***************************************************************************)
(* Model of django_splunk_analytics: HistoricalAnalyticsCollector          *)
(* (data_model.py) running against the tracker and ledger tables           *)
(* (models.py), a django-simple-history store and the model table.         *)
(*                                                                         *)
(* A run is one call of analyze() on a fresh collector.  Every database    *)
(* statement of a run is one step, so that runs of several processes can   *)
(* interleave between statements.  Spec lets one process run analyze()     *)
(* again and again (runs in sequence); ConcSpec lets two processes run     *)
(* at the same time; KillSpec lets a run be killed between lock and        *)
(* unlock; FileSpec has the output file as the sink; DumpSpec applies      *)
(* dump_result to items; ConnSpec calls connect() on request objects.      *)
(* The delete search of a run on the backend                               *)
(* (utils.py) is a login, the posted search and the polls of its status.   *)
(* The application appends version records and                             *)
(* creates / deletes model rows at any moment; such a write commutes with  *)
(* every statement of a run that reads neither table, so the model takes  *)
(* it only when some run is about to read them (get_actions, get_values). *)
(***************************************************************************)
EXTENDS Integers, Sequences, FiniteSets, TLC

\* Bounds of the model.
NumIds == 2
MaxHist == 3
MaxCount == 1
MaxStrLen == 3
MaxListLen == 2
MaxCalls == 3

Ids == 1..NumIds
Procs == {1, 2}

\* prior_date = now() - 100 years: older than every version record.
\* A version record's history_date is its position in the history (1, 2, ...).
PriorDate == 0

\* self.max_count = None
NoMaxCount == 0

NoRow == [row |-> 0, last_updated |-> PriorDate, state |-> 0]

\* self.splunk_ready = False: no request has gone to the backend
NoSearch == [state |-> "none", fatal |-> FALSE]

\* Rows another collector wrote for another content type
OtherRows == {[object_id |-> 1, last_updated |-> 1]}

VARIABLES
  history,      \* the simple-history table: sequence of [id, type]
  objects,      \* pks of the rows of self.model
  tracker,      \* AnalyticsModelTracker rows of the content type
  ledger,       \* AnalyticsChanges rows of the content type: for each
                \* object_id the last_updated of its rows, oldest row first
  pc,           \* where each process is in analyze()
  reset,        \* self.reset
  max_count,    \* self.max_count
  skip_locks,   \* self.skip_locks
  locked,       \* self.locked
  last_look,    \* self.last_look: the in-memory tracker row
  historical_change_pks,  \* locals of get_actions
  historical_delete_pks,
  accounted_pks,
  add_pks,      \* what get_actions returns (the lists' elements)
  update_pks,
  delete_pks,
  delete_batch, \* analyze: delete_pks after the union and the cut
  add_batch,    \* analyze: add_pks after the union and the cut
  items,        \* add_items: the values still to be written
  printed,      \* pks of the records this run has written to its sink
  detect_len,   \* history length when this run ran get_actions
  unreleased,   \* some acquire succeeded and no release completed since
  last_done,    \* detect_len of the last ended run if it completed release
                \* with no max_count, else -1
  output_file,  \* self.output_file is set (else records go to stdout)
  outfile,      \* the lines of the output file (the pk of each record)
  raised,       \* the exception that ended the run, "" if none
  search,       \* the run's delete search on the backend
  index,        \* ids that have a record in the backend's index
  other_rows,   \* AnalyticsChanges rows of other content types
  acquired_at,  \* the tracker's last_updated when lock() returned
  last_aborted, \* the last run that got the lock ended without unlock
  dump_in,      \* an item handed to dump_result
  dump_out,     \* the payload dump_result made of it
  request,      \* a SplunkRequest object: session, session_key, headers
  conn_log      \* how each connect() call on the object ended, in order

vars == <<history, objects, tracker, ledger, pc, reset, max_count, skip_locks,
          locked, last_look, historical_change_pks, historical_delete_pks,
          accounted_pks, add_pks, update_pks, delete_pks, delete_batch,
          add_batch, items, printed, detect_len, unreleased, last_done,
          output_file, outfile, raised, search, index, other_rows, acquired_at,
          last_aborted, dump_in, dump_out, request, conn_log>>

envVars == <<history, objects>>
dbVars == <<tracker, ledger>>
inputVars == <<reset, max_count, skip_locks>>
actionVars == <<historical_change_pks, historical_delete_pks, accounted_pks,
                add_pks, update_pks, delete_pks, delete_batch, add_batch,
                detect_len>>

----------------------------------------------------------------------------
\* Helpers

Range(s) == {s[k] : k \in 1..Len(s)}

Min2(a, b) == IF a < b THEN a ELSE b

SetMax(S) == CHOOSE x \in S : \A y \in S : y <= x

SetMin(S) == CHOOSE x \in S : \A y \in S : x <= y

\* list(set(...)): every order of the set's elements
ListsOf(S) ==
  {s \in [1..Cardinality(S) -> S] : \A a, b \in 1..Cardinality(S) : a # b => s[a] # s[b]}

\* xs[:max_count] if max_count else xs
Truncate(xs, n) == IF n # NoMaxCount THEN SubSeq(xs, 1, Min2(n, Len(xs))) ELSE xs

----------------------------------------------------------------------------
\* The history store and the model table (the application's side)

HistoryDates(h, i) == {k \in 1..Len(h) : h[k].id = i}

\* Some run's next statement reads the history or the model table
ReadPending == \E p \in Procs : pc[p] \in {"get_actions", "get_values"}

\* model.objects.create(): a '+' version record
AppCreate(i) ==
  /\ Len(history) < MaxHist
  /\ ReadPending
  /\ i \notin objects
  /\ objects' = objects \cup {i}
  /\ history' = Append(history, [id |-> i, type |-> "+"])
  /\ UNCHANGED <<dbVars, pc, inputVars, locked, last_look, actionVars, items,
                 printed, unreleased, last_done>>
  /\ UNCHANGED <<output_file, outfile, raised, search, index, other_rows, acquired_at, last_aborted>>
  /\ UNCHANGED <<dump_in, dump_out, request, conn_log>>

\* instance.save(): a '~' version record
AppUpdate(i) ==
  /\ Len(history) < MaxHist
  /\ ReadPending
  /\ i \in objects
  /\ history' = Append(history, [id |-> i, type |-> "~"])
  /\ UNCHANGED <<objects, dbVars, pc, inputVars, locked, last_look, actionVars,
                 items, printed, unreleased, last_done>>
  /\ UNCHANGED <<output_file, outfile, raised, search, index, other_rows, acquired_at, last_aborted>>
  /\ UNCHANGED <<dump_in, dump_out, request, conn_log>>

\* instance.delete(): a '-' version record
AppDelete(i) ==
  /\ Len(history) < MaxHist
  /\ ReadPending
  /\ i \in objects
  /\ objects' = objects \ {i}
  /\ history' = Append(history, [id |-> i, type |-> "-"])
  /\ UNCHANGED <<dbVars, pc, inputVars, locked, last_look, actionVars, items,
                 printed, unreleased, last_done>>
  /\ UNCHANGED <<output_file, outfile, raised, search, index, other_rows, acquired_at, last_aborted>>
  /\ UNCHANGED <<dump_in, dump_out, request, conn_log>>

----------------------------------------------------------------------------
InitTables ==
  /\ history = <<>>
  /\ objects = {}
  /\ tracker = <<>>
  /\ ledger = [i \in Ids |-> <<>>]
  /\ pc = [p \in Procs |-> "idle"]
  /\ reset = [p \in Procs |-> FALSE]
  /\ max_count = [p \in Procs |-> NoMaxCount]
  /\ skip_locks = [p \in Procs |-> TRUE]
  /\ locked = [p \in Procs |-> FALSE]
  /\ last_look = [p \in Procs |-> NoRow]
  /\ historical_change_pks = [p \in Procs |-> {}]
  /\ historical_delete_pks = [p \in Procs |-> {}]
  /\ accounted_pks = [p \in Procs |-> {}]
  /\ add_pks = [p \in Procs |-> {}]
  /\ update_pks = [p \in Procs |-> {}]
  /\ delete_pks = [p \in Procs |-> {}]
  /\ delete_batch = [p \in Procs |-> {}]
  /\ add_batch = [p \in Procs |-> {}]
  /\ items = [p \in Procs |-> <<>>]
  /\ printed = [p \in Procs |-> <<>>]
  /\ detect_len = [p \in Procs |-> 0]
  /\ unreleased = FALSE
  /\ last_done = -1
  /\ output_file = [p \in Procs |-> FALSE]
  /\ outfile = <<>>
  /\ raised = [p \in Procs |-> ""]
  /\ search = [p \in Procs |-> NoSearch]
  /\ index = {}
  /\ other_rows = OtherRows
  /\ acquired_at = [p \in Procs |-> PriorDate]
  /\ last_aborted = FALSE

\* SplunkRequest.__init__: session is None, no headers attribute, session_key
\* is the splunk_session_key keyword ("" stands for None)
SplunkRequest(key) == [session |-> FALSE, session_key |-> key, headers |-> FALSE]

InitDump == dump_in = <<>> /\ dump_out = <<>>

InitRequest ==
  /\ request = [p \in Procs |-> SplunkRequest("")]
  /\ conn_log = [p \in Procs |-> <<>>]

Init == InitTables /\ InitDump /\ InitRequest

----------------------------------------------------------------------------
\* Queries

\* get_queryset().filter(history_date__gt=last_updated): positions in the window
HistoricalChanges(h, since) == {k \in 1..Len(h) : k > since}

\* deletes.values_list('id'): ids with a '-' record in the window
HistoricalDeletePks(h, since) ==
  {h[k].id : k \in {j \in HistoricalChanges(h, since) : h[j].type = "-"}}

\* As HistoricalChangePks, without .exclude(id__in=historical_deletes)
HistoricalChangePksKeepDeleted(h, since) ==
  {h[k].id : k \in {j \in HistoricalChanges(h, since) : h[j].type # "-"}}

\* changes = historical_changes.exclude(history_type="-").exclude(id__in=historical_deletes)
HistoricalChangePks(h, since) ==
  {h[k].id : k \in {j \in HistoricalChanges(h, since) :
                      h[j].type # "-" /\ h[j].id \notin HistoricalDeletePks(h, since)}}

\* get_accounted_pks
AccountedPks(rows) == {i \in Ids : Len(rows[i]) > 0}

\* self.update_pks, set to [] in __init__ and assigned nowhere else
SelfUpdatePks == {}

\* get_actions, line 164
DeleteSet(accounted, deletes) == accounted \cap deletes

\* As UpdateSet, taking the changed ids that have no ledger row
UpdateSetUnaccounted(accounted, changes) == changes \ accounted

\* get_actions, line 165
UpdateSet(accounted, changes) == accounted \cap changes

\* get_actions, line 166: set(historical_change_pks) - set(self.update_pks)
AddSet(changes) == changes \ SelfUpdatePks

\* analyze, lines 282-283
DeleteBatch(ul, dl, n) == Truncate(ul \o dl, n)

\* analyze, lines 286-287
AddBatch(al, ul, n) == Truncate(al \o ul, n)

\* get_historical_attributes: the version records of the pks (the dates of
\* historical_model.filter(id__in=pks))
HistoryRows(h, pks) == {k \in 1..Len(h) : h[k].id \in pks}

\* As AttributeStep, without the update of historical_create_date
AttributeStepNoMin(data, pk, hist_date) ==
  LET d0 == IF pk \in DOMAIN data THEN data
            ELSE (pk :> [historical_create_date |-> hist_date,
                         historical_last_change_date |-> hist_date,
                         historical_total_changes |-> 0,
                         historical_delta_days |-> 0]) @@ data
  IN  [d0 EXCEPT ![pk] =
         [@ EXCEPT !.historical_total_changes = @ + 1,
                   !.historical_last_change_date = IF hist_date > @ THEN hist_date ELSE @]]

\* get_historical_attributes, lines 212-221: the loop's body for one row
AttributeStep(data, pk, hist_date) ==
  LET d0 == IF pk \in DOMAIN data THEN data
            ELSE (pk :> [historical_create_date |-> hist_date,
                         historical_last_change_date |-> hist_date,
                         historical_total_changes |-> 0,
                         historical_delta_days |-> 0]) @@ data
  IN  [d0 EXCEPT ![pk] =
         [@ EXCEPT !.historical_total_changes = @ + 1,
                   !.historical_create_date = IF hist_date < @ THEN hist_date ELSE @,
                   !.historical_last_change_date = IF hist_date > @ THEN hist_date ELSE @]]

\* get_historical_attributes, lines 210-221: the loop over the rows, in the
\* order the database returns them
RECURSIVE AttributeLoop(_, _, _)
AttributeLoop(h, rows, data) ==
  IF rows = <<>> THEN data
  ELSE AttributeLoop(h, Tail(rows), AttributeStep(data, h[Head(rows)].id, Head(rows)))

\* get_historical_attributes, lines 223-228: delta_days in the unit of the
\* dates, average_days as the quotient delta_days / total_changes
GetHistoricalAttributes(h, rows) ==
  LET data == AttributeLoop(h, rows, <<>>)
  IN  [pk \in DOMAIN data |->
         LET delta == data[pk].historical_last_change_date - data[pk].historical_create_date
         IN  [data[pk] EXCEPT !.historical_delta_days = delta] @@
             [historical_average_days |->
                [num |-> delta, den |-> data[pk].historical_total_changes]]]

\* get_values: one item per row of the model among the pks, updated with the
\* field method's result for its pk
Values(h, objs, pks, rows) ==
  LET results == GetHistoricalAttributes(h, rows)
  IN  {IF i \in DOMAIN results THEN [pk |-> i] @@ results[i] ELSE [pk |-> i] :
         i \in pks \cap objs}

\* As LastChange, with .first() for .last()
LastChangeFirst(rows) == SetMin(UNION {Range(rows[i]) : i \in Ids})

\* unlock: filter(content_type).order_by('last_updated').last()
LastChange(rows) == SetMax(UNION {Range(rows[i]) : i \in Ids})

\* As LockedRow, with last_updated = prior_date outside the if
LockedRowRewinds(row, r) ==
  [row EXCEPT !.last_updated = PriorDate, !.state = 0]

\* lock, lines 104-108: the in-memory row before save()
LockedRow(row, r) ==
  [row EXCEPT !.last_updated = IF r THEN PriorDate ELSE @, !.state = 0]

\* As AfterGet, with the reset applied before the state check
AfterGetResetFirst(state, skip, r) ==
  IF r THEN "lock_reset" ELSE IF state = 0 /\ ~skip THEN "refused" ELSE "lock_save"

\* lock, lines 101-108: what follows the get() of an existing row
AfterGet(state, skip, r) ==
  IF state = 0 /\ ~skip THEN "refused" ELSE IF r THEN "lock_reset" ELSE "lock_save"

\* As OtherRowsAfterReset, with the delete not filtered by content type
AllRowsDeleted(rows) == {}

\* lock, line 106: the delete is filtered by content type
OtherRowsAfterReset(rows) == rows

\* create_search, lines 98-103: FATAL is logged; the format of the debug
\* message needs data['sid']
AfterCreateSearch(fatal, has_sid) == IF has_sid THEN "get_search_status" ELSE "crashed"

\* As StopsPolling, leaving the loop after the first answer
StopsPollingAtOnce(status, wait_for_results) == TRUE

\* get_search_status, lines 113-119: when the polling loop breaks
StopsPolling(status, wait_for_results) == ~wait_for_results \/ status = 200

\* Model.save(): the row's columns as held in memory
RowOf(look) == [last_updated |-> look.last_updated, state |-> look.state]

----------------------------------------------------------------------------
\* One run: analyze() on a fresh collector

Ended(p) == pc[p] \in {"idle", "done", "refused", "crashed"}

\* __init__(reset, max_count), skip_locks set by the caller, then analyze()
Construct(p, r, m, s, f) ==
  /\ Ended(p)
  /\ pc' = [pc EXCEPT ![p] = "lock_get"]
  /\ reset' = [reset EXCEPT ![p] = r]
  /\ max_count' = [max_count EXCEPT ![p] = m]
  /\ skip_locks' = [skip_locks EXCEPT ![p] = s]
  /\ locked' = [locked EXCEPT ![p] = FALSE]
  /\ last_look' = [last_look EXCEPT ![p] = NoRow]
  /\ historical_change_pks' = [historical_change_pks EXCEPT ![p] = {}]
  /\ historical_delete_pks' = [historical_delete_pks EXCEPT ![p] = {}]
  /\ accounted_pks' = [accounted_pks EXCEPT ![p] = {}]
  /\ add_pks' = [add_pks EXCEPT ![p] = {}]
  /\ update_pks' = [update_pks EXCEPT ![p] = {}]
  /\ delete_pks' = [delete_pks EXCEPT ![p] = {}]
  /\ delete_batch' = [delete_batch EXCEPT ![p] = {}]
  /\ add_batch' = [add_batch EXCEPT ![p] = {}]
  /\ items' = [items EXCEPT ![p] = <<>>]
  /\ printed' = [printed EXCEPT ![p] = <<>>]
  /\ detect_len' = [detect_len EXCEPT ![p] = 0]
  /\ output_file' = [output_file EXCEPT ![p] = f]
  /\ raised' = [raised EXCEPT ![p] = ""]
  /\ search' = [search EXCEPT ![p] = NoSearch]
  /\ acquired_at' = [acquired_at EXCEPT ![p] = PriorDate]
  /\ UNCHANGED <<envVars, dbVars, unreleased, last_done>>
  /\ UNCHANGED <<outfile, index, other_rows, last_aborted>>
  /\ UNCHANGED <<dump_in, dump_out, request, conn_log>>

\* lock: AnalyticsModelTracker.objects.get(content_type=...), then the state check
LockGet(p) ==
  /\ pc[p] = "lock_get"
  /\ IF Len(tracker) = 0
       THEN /\ pc' = [pc EXCEPT ![p] = "lock_create"]
            /\ UNCHANGED <<last_look, last_done, raised>>
       ELSE IF Len(tracker) > 1
       THEN \* MultipleObjectsReturned is not caught by analyze
            /\ pc' = [pc EXCEPT ![p] = "crashed"]
            /\ raised' = [raised EXCEPT ![p] = "MultipleObjectsReturned"]
            /\ last_done' = -1
            /\ UNCHANGED last_look
       ELSE LET next == AfterGet(tracker[1].state, skip_locks[p], reset[p])
            IN  /\ last_look' = [last_look EXCEPT ![p] =
                       [row |-> 1, last_updated |-> tracker[1].last_updated,
                        state |-> tracker[1].state]]
                /\ pc' = [pc EXCEPT ![p] = next]
                \* RuntimeError("Already processing"): analyze returns it
                /\ raised' = [raised EXCEPT ![p] =
                                IF next = "refused" THEN "RuntimeError" ELSE ""]
                /\ last_done' = IF next = "refused" THEN -1 ELSE last_done
  /\ UNCHANGED <<envVars, dbVars, inputVars, locked, actionVars, items, printed,
                 unreleased>>
  /\ UNCHANGED <<output_file, outfile, search, index, other_rows, acquired_at, last_aborted>>
  /\ UNCHANGED <<dump_in, dump_out, request, conn_log>>

\* lock: AnalyticsModelTracker.objects.create(last_updated=prior_date, state=0)
LockCreate(p) ==
  /\ pc[p] = "lock_create"
  /\ tracker' = Append(tracker, [last_updated |-> PriorDate, state |-> 0])
  /\ last_look' = [last_look EXCEPT ![p] =
        [row |-> Len(tracker) + 1, last_updated |-> PriorDate, state |-> 0]]
  /\ locked' = [locked EXCEPT ![p] = TRUE]
  /\ pc' = [pc EXCEPT ![p] = "get_actions"]
  /\ unreleased' = TRUE
  /\ acquired_at' = [acquired_at EXCEPT ![p] = PriorDate]
  /\ UNCHANGED <<envVars, ledger, inputVars, actionVars, items, printed, last_done>>
  /\ UNCHANGED <<output_file, outfile, raised, search, index, other_rows, last_aborted>>
  /\ UNCHANGED <<dump_in, dump_out, request, conn_log>>

\* lock: AnalyticsChanges.objects.filter(content_type=...).delete()
LockReset(p) ==
  /\ pc[p] = "lock_reset"
  /\ ledger' = [i \in Ids |-> <<>>]
  /\ other_rows' = OtherRowsAfterReset(other_rows)
  /\ pc' = [pc EXCEPT ![p] = "lock_save"]
  /\ UNCHANGED <<envVars, tracker, inputVars, locked, last_look, actionVars, items,
                 printed, unreleased, last_done>>
  /\ UNCHANGED <<output_file, outfile, raised, search, index, acquired_at, last_aborted>>
  /\ UNCHANGED <<dump_in, dump_out, request, conn_log>>

\* lock: last_updated = prior_date on reset, state = 0, save()
LockSave(p) ==
  /\ pc[p] = "lock_save"
  /\ last_look' = [last_look EXCEPT ![p] = LockedRow(@, reset[p])]
  /\ tracker' = [tracker EXCEPT ![last_look[p].row] = RowOf(last_look'[p])]
  /\ locked' = [locked EXCEPT ![p] = TRUE]
  /\ pc' = [pc EXCEPT ![p] = "get_actions"]
  /\ unreleased' = TRUE
  /\ acquired_at' = [acquired_at EXCEPT ![p] = last_look'[p].last_updated]
  /\ UNCHANGED <<envVars, ledger, inputVars, actionVars, items, printed, last_done>>
  /\ UNCHANGED <<output_file, outfile, raised, search, index, other_rows, last_aborted>>
  /\ UNCHANGED <<dump_in, dump_out, request, conn_log>>

\* get_actions, then analyze's two batches
GetActions(p) ==
  /\ pc[p] = "get_actions"
  /\ locked[p]
  /\ LET since == last_look[p].last_updated
         changes == HistoricalChangePks(history, since)
         deletes == HistoricalDeletePks(history, since)
         accounted == AccountedPks(ledger)
     IN  /\ historical_change_pks' = [historical_change_pks EXCEPT ![p] = changes]
         /\ historical_delete_pks' = [historical_delete_pks EXCEPT ![p] = deletes]
         /\ accounted_pks' = [accounted_pks EXCEPT ![p] = accounted]
         /\ \E dl \in ListsOf(DeleteSet(accounted, deletes)),
               ul \in ListsOf(UpdateSet(accounted, changes)),
               al \in ListsOf(AddSet(changes)) :
              /\ delete_pks' = [delete_pks EXCEPT ![p] = Range(dl)]
              /\ update_pks' = [update_pks EXCEPT ![p] = Range(ul)]
              /\ add_pks' = [add_pks EXCEPT ![p] = Range(al)]
              /\ delete_batch' = [delete_batch EXCEPT ![p] =
                                    Range(DeleteBatch(ul, dl, max_count[p]))]
              /\ add_batch' = [add_batch EXCEPT ![p] =
                                 Range(AddBatch(al, ul, max_count[p]))]
  /\ detect_len' = [detect_len EXCEPT ![p] = Len(history)]
  /\ pc' = [pc EXCEPT ![p] = "delete_items"]
  /\ UNCHANGED <<envVars, dbVars, inputVars, locked, last_look, items, printed,
                 unreleased, last_done>>
  /\ UNCHANGED <<output_file, outfile, raised, search, index, other_rows, acquired_at, last_aborted>>
  /\ UNCHANGED <<dump_in, dump_out, request, conn_log>>

\* delete_items: nothing to do for an empty batch; else self.splunk is built and
\* create_search's connect() logs in (a status other than 200 raises)
DeleteItems(p) ==
  /\ pc[p] = "delete_items"
  /\ \E ok \in BOOLEAN :
       /\ delete_batch[p] = {} => ok
       /\ pc' = [pc EXCEPT ![p] = IF delete_batch[p] = {} THEN "get_values"
                                  ELSE IF ok THEN "create_search" ELSE "crashed"]
       /\ raised' = [raised EXCEPT ![p] =
                       IF ok THEN "" ELSE "SplunkAuthenticationException"]
       /\ search' = [search EXCEPT ![p] =
                       IF delete_batch[p] = {} THEN @ ELSE [@ EXCEPT !.state = "login"]]
       /\ last_done' = IF ok THEN last_done ELSE -1
       /\ last_aborted' = IF ok THEN last_aborted ELSE TRUE
  /\ UNCHANGED <<envVars, dbVars, inputVars, locked, last_look, actionVars, items,
                 printed, unreleased>>
  /\ UNCHANGED <<output_file, outfile, index, other_rows, acquired_at>>
  /\ UNCHANGED <<dump_in, dump_out, request, conn_log>>

\* create_search: the delete query is posted; the answer may carry a FATAL
\* message and may carry a sid
CreateSearch(p) ==
  /\ pc[p] = "create_search"
  /\ \E fatal \in BOOLEAN, has_sid \in BOOLEAN :
       LET next == AfterCreateSearch(fatal, has_sid)
       IN  /\ pc' = [pc EXCEPT ![p] = next]
           /\ search' = [search EXCEPT ![p] = [state |-> "created", fatal |-> fatal]]
           /\ raised' = [raised EXCEPT ![p] = IF next = "crashed" THEN "KeyError" ELSE ""]
           /\ last_done' = IF next = "crashed" THEN -1 ELSE last_done
           /\ last_aborted' = IF next = "crashed" THEN TRUE ELSE last_aborted
  /\ UNCHANGED <<envVars, dbVars, inputVars, locked, last_look, actionVars, items,
                 printed, unreleased>>
  /\ UNCHANGED <<output_file, outfile, index, other_rows, acquired_at>>
  /\ UNCHANGED <<dump_in, dump_out, request, conn_log>>

\* get_search_status(search_id, wait_for_results=True): one pass of the loop;
\* the backend answers 200 once the job is over (a job that was not FATAL has
\* then deleted its records), 204 before
GetSearchStatus(p) ==
  /\ pc[p] = "get_search_status"
  /\ \E status \in {200, 204} :
       IF StopsPolling(status, TRUE)
         THEN /\ pc' = [pc EXCEPT ![p] = "get_values"]
              /\ search' = [search EXCEPT ![p] =
                              [@ EXCEPT !.state = IF status = 200 THEN "ready" ELSE @]]
              /\ index' = IF status = 200 /\ ~search[p].fatal
                             THEN index \ delete_batch[p] ELSE index
         ELSE UNCHANGED <<pc, search, index>>
  /\ UNCHANGED <<envVars, dbVars, inputVars, locked, last_look, actionVars, items,
                 printed, unreleased, last_done>>
  /\ UNCHANGED <<output_file, outfile, raised, other_rows, acquired_at, last_aborted>>
  /\ UNCHANGED <<dump_in, dump_out, request, conn_log>>

\* add_items: get_values(add_pks), rows in the order the database returns them
GetValues(p) ==
  /\ pc[p] = "get_values"
  /\ \E rows \in ListsOf(HistoryRows(history, add_batch[p])) :
     \E vs \in ListsOf(Values(history, objects, add_batch[p], rows)) :
       /\ items' = [items EXCEPT ![p] = vs]
       /\ pc' = [pc EXCEPT ![p] = IF Len(vs) = 0 THEN "unlock_read" ELSE "add_get"]
  /\ UNCHANGED <<envVars, dbVars, inputVars, locked, last_look, actionVars, printed,
                 unreleased, last_done>>
  /\ UNCHANGED <<output_file, outfile, raised, search, index, other_rows, acquired_at, last_aborted>>
  /\ UNCHANGED <<dump_in, dump_out, request, conn_log>>

\* add_items: get_or_create's lookup of the ledger row
AddGet(p) ==
  /\ pc[p] = "add_get"
  /\ LET n == Len(ledger[items[p][1].pk])
     IN  /\ pc' = [pc EXCEPT ![p] =
                     IF n = 0 THEN "add_create" ELSE IF n = 1 THEN "add_save" ELSE "crashed"]
         /\ raised' = [raised EXCEPT ![p] =
                         IF n > 1 THEN "MultipleObjectsReturned" ELSE ""]
         /\ last_done' = IF n > 1 THEN -1 ELSE last_done
         /\ last_aborted' = IF n > 1 THEN TRUE ELSE last_aborted
  /\ UNCHANGED <<envVars, dbVars, inputVars, locked, last_look, actionVars, items,
                 printed, unreleased>>
  /\ UNCHANGED <<output_file, outfile, search, index, other_rows, acquired_at>>
  /\ UNCHANGED <<dump_in, dump_out, request, conn_log>>

\* add_items, lines 202-206: open(self.output_file, "w") for each record, or print
WriteRecord(file, to_file, rec) == IF to_file THEN <<rec>> ELSE file

AfterItem(p) == IF Len(items[p]) = 1 THEN "unlock_read" ELSE "add_get"

\* add_items: get_or_create's insert, then the record is written
AddCreate(p) ==
  /\ pc[p] = "add_create"
  /\ ledger' = [ledger EXCEPT ![items[p][1].pk] =
                   Append(@, items[p][1].historical_last_change_date)]
  /\ printed' = [printed EXCEPT ![p] = Append(@, items[p][1].pk)]
  /\ outfile' = WriteRecord(outfile, output_file[p], items[p][1].pk)
  /\ index' = index \cup {items[p][1].pk}
  /\ items' = [items EXCEPT ![p] = Tail(@)]
  /\ pc' = [pc EXCEPT ![p] = AfterItem(p)]
  /\ UNCHANGED <<envVars, tracker, inputVars, locked, last_look, actionVars,
                 unreleased, last_done>>
  /\ UNCHANGED <<output_file, raised, search, other_rows, acquired_at, last_aborted>>
  /\ UNCHANGED <<dump_in, dump_out, request, conn_log>>

\* add_items: change.last_updated = ...; change.save(), then the record is written
\* (save() of a row that is gone inserts it again)
AddSave(p) ==
  /\ pc[p] = "add_save"
  /\ LET new == items[p][1].historical_last_change_date
     IN  ledger' = [ledger EXCEPT ![items[p][1].pk] =
                      IF Len(@) = 0 THEN <<new>> ELSE [@ EXCEPT ![1] = new]]
  /\ printed' = [printed EXCEPT ![p] = Append(@, items[p][1].pk)]
  /\ outfile' = WriteRecord(outfile, output_file[p], items[p][1].pk)
  /\ index' = index \cup {items[p][1].pk}
  /\ items' = [items EXCEPT ![p] = Tail(@)]
  /\ pc' = [pc EXCEPT ![p] = AfterItem(p)]
  /\ UNCHANGED <<envVars, tracker, inputVars, locked, last_look, actionVars,
                 unreleased, last_done>>
  /\ UNCHANGED <<output_file, raised, search, other_rows, acquired_at, last_aborted>>
  /\ UNCHANGED <<dump_in, dump_out, request, conn_log>>

\* unlock: the last ledger row by last_updated; None.last_updated raises
UnlockRead(p) ==
  /\ pc[p] = "unlock_read"
  /\ IF AccountedPks(ledger) = {}
       THEN /\ pc' = [pc EXCEPT ![p] = "crashed"]
            /\ raised' = [raised EXCEPT ![p] = "AttributeError"]
            /\ last_done' = -1
            /\ last_aborted' = TRUE
            /\ UNCHANGED last_look
       ELSE /\ last_look' = [last_look EXCEPT ![p] =
                   [@ EXCEPT !.state = 0, !.last_updated = LastChange(ledger)]]
            /\ pc' = [pc EXCEPT ![p] = "unlock_save"]
            /\ UNCHANGED <<last_done, raised, last_aborted>>
  /\ UNCHANGED <<envVars, dbVars, inputVars, locked, actionVars, items, printed,
                 unreleased>>
  /\ UNCHANGED <<output_file, outfile, search, index, other_rows, acquired_at>>
  /\ UNCHANGED <<dump_in, dump_out, request, conn_log>>

\* unlock: self.last_look.save(); self.locked = False
UnlockSave(p) ==
  /\ pc[p] = "unlock_save"
  /\ tracker' = [tracker EXCEPT ![last_look[p].row] = RowOf(last_look[p])]
  /\ locked' = [locked EXCEPT ![p] = FALSE]
  /\ pc' = [pc EXCEPT ![p] = "done"]
  /\ unreleased' = FALSE
  /\ last_done' = IF max_count[p] = NoMaxCount THEN detect_len[p] ELSE -1
  /\ last_aborted' = FALSE
  /\ UNCHANGED <<envVars, ledger, inputVars, last_look, actionVars, items, printed>>
  /\ UNCHANGED <<output_file, outfile, raised, search, index, other_rows, acquired_at>>
  /\ UNCHANGED <<dump_in, dump_out, request, conn_log>>

\* The process is killed between lock() and the end of unlock(): the tables
\* stay as they are and the collector's memory is gone
Abort(p) ==
  /\ locked[p]
  /\ ~Ended(p)
  /\ pc' = [pc EXCEPT ![p] = "crashed"]
  /\ raised' = [raised EXCEPT ![p] = "Killed"]
  /\ reset' = [reset EXCEPT ![p] = FALSE]
  /\ max_count' = [max_count EXCEPT ![p] = NoMaxCount]
  /\ skip_locks' = [skip_locks EXCEPT ![p] = TRUE]
  /\ last_look' = [last_look EXCEPT ![p] = NoRow]
  /\ historical_change_pks' = [historical_change_pks EXCEPT ![p] = {}]
  /\ historical_delete_pks' = [historical_delete_pks EXCEPT ![p] = {}]
  /\ accounted_pks' = [accounted_pks EXCEPT ![p] = {}]
  /\ add_pks' = [add_pks EXCEPT ![p] = {}]
  /\ update_pks' = [update_pks EXCEPT ![p] = {}]
  /\ delete_pks' = [delete_pks EXCEPT ![p] = {}]
  /\ delete_batch' = [delete_batch EXCEPT ![p] = {}]
  /\ add_batch' = [add_batch EXCEPT ![p] = {}]
  /\ items' = [items EXCEPT ![p] = <<>>]
  /\ printed' = [printed EXCEPT ![p] = <<>>]
  /\ detect_len' = [detect_len EXCEPT ![p] = 0]
  /\ search' = [search EXCEPT ![p] = NoSearch]
  /\ last_done' = -1
  /\ last_aborted' = TRUE
  /\ UNCHANGED <<envVars, dbVars, locked, unreleased>>
  /\ UNCHANGED <<output_file, outfile, index, other_rows, acquired_at>>
  /\ UNCHANGED <<dump_in, dump_out, request, conn_log>>

\* The statements of a run after the collector is built
Step(p) ==
  \/ LockGet(p)
  \/ LockCreate(p)
  \/ LockReset(p)
  \/ LockSave(p)
  \/ GetActions(p)
  \/ DeleteItems(p)
  \/ CreateSearch(p)
  \/ GetSearchStatus(p)
  \/ GetValues(p)
  \/ AddGet(p)
  \/ AddCreate(p)
  \/ AddSave(p)
  \/ UnlockRead(p)
  \/ UnlockSave(p)

\* A run that prints its records (output_file is None, as main() leaves it)
Run(p) ==
  \/ \E r \in BOOLEAN, m \in 0..MaxCount, s \in BOOLEAN : Construct(p, r, m, s, FALSE)
  \/ Step(p)

\* A run that writes its records to self.output_file
FileRun(p) ==
  \/ \E r \in BOOLEAN, m \in 0..MaxCount, s \in BOOLEAN : Construct(p, r, m, s, TRUE)
  \/ Step(p)

\* The statements a run without reset can reach
StepNoReset(p) ==
  \/ LockGet(p)
  \/ LockCreate(p)
  \/ LockSave(p)
  \/ GetActions(p)
  \/ DeleteItems(p)
  \/ CreateSearch(p)
  \/ GetSearchStatus(p)
  \/ GetValues(p)
  \/ AddGet(p)
  \/ AddCreate(p)
  \/ AddSave(p)
  \/ UnlockRead(p)
  \/ UnlockSave(p)

\* One run of a collector built as main() builds it (no reset, no max_count),
\* with skip_locks as the caller sets it
RunOnce(p) ==
  \/ \E s \in BOOLEAN : pc[p] = "idle" /\ Construct(p, FALSE, NoMaxCount, s, FALSE)
  \/ StepNoReset(p)

App == \E i \in Ids : AppCreate(i) \/ AppUpdate(i) \/ AppDelete(i)

\* Runs one after the other
Next == App \/ Run(1)

Spec == Init /\ [][Next]_vars

\* Two processes, each running analyze() once, at the same time or one after
\* the other
ConcNext == App \/ \E p \in Procs : RunOnce(p)

ConcSpec == Init /\ [][ConcNext]_vars

\* A run without reset and without max_count that may be killed
KillRun(p) ==
  \/ \E s \in BOOLEAN : Construct(p, FALSE, NoMaxCount, s, FALSE)
  \/ StepNoReset(p)
  \/ Abort(p)

\* Runs one after the other, any of which may be killed
KillNext == App \/ KillRun(1)

KillSpec == Init /\ [][KillNext]_vars

\* Runs one after the other, with the file as the sink
FileNext == App \/ FileRun(1)

FileSpec == Init /\ [][FileNext]_vars

----------------------------------------------------------------------------
\* dump_result and clean_value, on values of a field.  A value is a record
\* [t, v]: t is the Python type and v the text of a string or number, or the
\* elements of a list.

Chars == {"0", "5", ".", "e", "-"}

Digits == {"0", "1", "2", "3", "4", "5", "6", "7", "8", "9"}

NoneValue == [t |-> "None", v |-> <<>>]

StrValue(s) == [t |-> "str", v |-> s]

Strs == UNION {[1..n -> Chars] : n \in 0..MaxStrLen}

\* The values of a field: None, a string, a list of strings
FieldValues ==
  {NoneValue} \cup {StrValue(s) : s \in Strs}
    \cup {[t |-> "list", v |-> l] :
            l \in UNION {[1..n -> {StrValue(s) : s \in Strs}] : n \in 0..MaxListLen}}

\* An item of get_values: the fields in the order of the OrderedDict
Item(pk, value, date) ==
  <<[k |-> "pk", v |-> [t |-> "int", v |-> <<pk>>]],
    [k |-> "name", v |-> value],
    [k |-> "historical_last_change_date", v |-> [t |-> "datetime", v |-> <<date>>]]>>

DumpItems == {Item(pk, value, 1) : pk \in Ids, value \in FieldValues}

\* [0-9]+ / \d+
IsDigits(s) == s # <<>> /\ \A k \in 1..Len(s) : s[k] \in Digits

\* s without one leading character of signs, if it has one
Unsigned(s, signs) == IF s # <<>> /\ s[1] \in signs THEN Tail(s) ELSE s

\* INTS = ^-?[0-9]+$
INTS(s) == IsDigits(Unsigned(s, {"-"}))

\* \d+(?:\.\d+)?
IsDecimal(s) ==
  \/ IsDigits(s)
  \/ \E k \in 1..Len(s) :
       s[k] = "." /\ IsDigits(SubSeq(s, 1, k - 1)) /\ IsDigits(SubSeq(s, k + 1, Len(s)))

\* NUMS = ^[+-]?\d+(?:\.\d+)?(?:[eE][+-]?\d+)?$
NUMS(s) ==
  LET u == Unsigned(s, {"+", "-"})
  IN  \/ IsDecimal(u)
      \/ \E k \in 1..Len(u) :
           /\ u[k] \in {"e", "E"}
           /\ IsDecimal(SubSeq(u, 1, k - 1))
           /\ IsDigits(Unsigned(SubSeq(u, k + 1, Len(u)), {"+", "-"}))

\* value.startswith("00")
StartsWith00(s) == Len(s) >= 2 /\ s[1] = "0" /\ s[2] = "0"

\* dump_result.clean_value
RECURSIVE clean_value(_)
clean_value(value) ==
  IF value.t = "str"
    THEN IF StartsWith00(value.v) THEN value
         ELSE IF INTS(value.v) THEN [t |-> "int", v |-> value.v]
         ELSE IF NUMS(value.v) THEN [t |-> "float", v |-> value.v]
         ELSE IF Len(value.v) = 0 THEN NoneValue
         ELSE value
  ELSE IF value.t = "list"
    THEN IF Len(value.v) = 0 THEN NoneValue
         ELSE [t |-> "list", v |-> [k \in 1..Len(value.v) |-> clean_value(value.v[k])]]
  ELSE value

\* item.get(key)
ItemGet(item, key) ==
  IF \E k \in 1..Len(item) : item[k].k = key
    THEN item[CHOOSE k \in 1..Len(item) : item[k].k = key].v
    ELSE NoneValue

\* data[field] = value on an OrderedDict: a known key keeps its place
DictSet(data, field, value) ==
  IF \E k \in 1..Len(data) : data[k].k = field
    THEN [k \in 1..Len(data) |->
            IF data[k].k = field THEN [k |-> field, v |-> value] ELSE data[k]]
    ELSE Append(data, [k |-> field, v |-> value])

\* dump_result, lines 251-255: the loop over item.items() (field_map is empty)
RECURSIVE DumpLoop(_, _)
DumpLoop(fields, data) ==
  IF fields = <<>> THEN data
  ELSE LET value == clean_value(Head(fields).v)
       IN  DumpLoop(Tail(fields),
                    IF value # NoneValue THEN DictSet(data, Head(fields).k, value)
                    ELSE data)

\* json.dumps(..., default=splunk_default) of one value: None is written as
\* null, a datetime as its isoformat() string
RECURSIVE Json(_)
Json(value) ==
  IF value.t = "None" THEN [t |-> "null", v |-> <<>>]
  ELSE IF value.t = "datetime" THEN [t |-> "str", v |-> value.v]
  ELSE IF value.t = "list" THEN [t |-> "list", v |-> [k \in 1..Len(value.v) |-> Json(value.v[k])]]
  ELSE value

\* dump_result: the payload as the sequence of its keys and JSON values
dump_result(item) ==
  LET data == DumpLoop(item,
                <<[k |-> "timestamp", v |-> ItemGet(item, "historical_last_change_date")],
                  [k |-> "pk", v |-> ItemGet(item, "pk")]>>)
  IN  [k \in 1..Len(data) |-> [k |-> data[k].k, v |-> Json(data[k].v)]]

\* add_items, line 195: result = self.dump_result(item)
DumpResult ==
  /\ dump_in # <<>>
  /\ dump_out = <<>>
  /\ dump_out' = dump_result(dump_in)
  /\ UNCHANGED <<envVars, dbVars, inputVars, pc, locked, last_look, actionVars, items,
                 printed, unreleased, last_done, output_file, outfile, raised, search,
                 index, other_rows, acquired_at, last_aborted, dump_in, request,
                 conn_log>>

\* dump_result applied to every item of DumpItems
DumpInit == InitTables /\ dump_in \in DumpItems /\ dump_out = <<>> /\ InitRequest

DumpSpec == DumpInit /\ [][DumpResult]_vars

\* SplunkRequest.connect, lines 64-87, on a request object: the object after
\* the call and how the call ended.  status is the answer to the login post
connect(req, status) ==
  IF req.session_key # "" THEN [req |-> req, outcome |-> "returned"]
  ELSE IF req.session THEN [req |-> req, outcome |-> "returned"]
  ELSE IF status # 200
    THEN [req |-> [req EXCEPT !.session = TRUE], outcome |-> "raised"]
  ELSE [req |-> [session |-> TRUE,
                 session_key |-> "sessionKey",
                 headers |-> TRUE],
        outcome |-> "returned"]

\* One more connect() call on p's request object
Connect(p) ==
  /\ Len(conn_log[p]) < MaxCalls
  /\ \E status \in {200, 401} :
       LET r == connect(request[p], status)
       IN  /\ request' = [request EXCEPT ![p] = r.req]
           /\ conn_log' = [conn_log EXCEPT ![p] = Append(@, r.outcome)]
  /\ UNCHANGED <<envVars, dbVars, inputVars, pc, locked, last_look, actionVars, items,
                 printed, unreleased, last_done, output_file, outfile, raised, search,
                 index, other_rows, acquired_at, last_aborted, dump_in, dump_out>>

\* Request objects built with or without splunk_session_key
ConnInit ==
  /\ InitTables
  /\ InitDump
  /\ request \in [Procs -> {SplunkRequest(""), SplunkRequest("preset")}]
  /\ conn_log = [p \in Procs |-> <<>>]

ConnNext == \E p \in Procs : Connect(p)

\* Any sequence of connect() calls on request objects
ConnSpec == ConnInit /\ [][ConnNext]_vars

-----------------------------------------------------------------------------
\* Properties

\* get_actions has returned and nothing of the run has been written yet
Reconciled(p) == pc[p] = "delete_items"

\* The run is between a successful lock() and the end of unlock()
Holding(p) ==
  pc[p] \in {"get_actions", "delete_items", "create_search", "get_search_status",
             "get_values", "add_get", "add_create", "add_save", "unlock_read",
             "unlock_save"}

\* Version record k was in the window of p's get_actions
InWindow(p, k) == k > last_look[p].last_updated /\ k <= detect_len[p]

\* i has a Delete record in the window of p's get_actions
DeletedInWindow(p, i) ==
  \E k \in 1..Len(history) : InWindow(p, k) /\ history[k].id = i /\ history[k].type = "-"

\* i has a Create or Update record in the window of p's get_actions
ChangedInWindow(p, i) ==
  \E k \in 1..Len(history) : InWindow(p, k) /\ history[k].id = i /\ history[k].type # "-"

\* C1: the add, update and delete sets one get_actions returns are pairwise
\* disjoint.
C1_ActionSetsDisjoint ==
  \A p \in Procs :
    Reconciled(p) =>
      /\ add_pks[p] \cap update_pks[p] = {}
      /\ add_pks[p] \cap delete_pks[p] = {}
      /\ update_pks[p] \cap delete_pks[p] = {}

\* C2: the add set get_actions returns is the changed ids minus the ids that
\* have a ledger row.
C2_AddIsChangedMinusProcessed ==
  \A p \in Procs :
    Reconciled(p) =>
      add_pks[p] = {i \in historical_change_pks[p] : Len(ledger[i]) = 0}

\* C3: an id with a Delete record newer than the watermark is not in the changed
\* set, is in the delete set exactly when it has a ledger row, and is in neither
\* the add nor the update set, whatever else is in the window.
C3_DeleteWins ==
  \A p \in Procs : \A i \in Ids :
    (Reconciled(p) /\ DeletedInWindow(p, i)) =>
      /\ i \notin historical_change_pks[p]
      /\ i \notin add_pks[p]
      /\ i \notin update_pks[p]
      /\ (i \in delete_pks[p]) <=> (Len(ledger[i]) > 0)

\* C3, witness: a ledgered id with an Update and a Delete in the window is
\* classified as Delete.
C3_Witness ==
  \E i \in Ids :
    /\ Reconciled(1)
    /\ DeletedInWindow(1, i)
    /\ ChangedInWindow(1, i)
    /\ i \in delete_pks[1]

\* C4: when the run before completed release (no max_count) and the history is
\* the one that run saw, get_actions of a run without reset returns three
\* empty sets.
C4_SecondPassEmpty ==
  \A p \in Procs :
    (Reconciled(p) /\ ~reset[p] /\ last_done = detect_len[p]) =>
      /\ add_pks[p] = {}
      /\ update_pks[p] = {}
      /\ delete_pks[p] = {}

\* C5: a completed run with max_count = 1 and two existing, unledgered ids to
\* add has written one record; the id left out has no ledger row and, with no
\* new version record, is among the changed ids (hence the adds) of the next
\* run's get_actions.
C5_DeferredAddKept ==
  \A p \in Procs :
    (/\ pc[p] = "done"
     /\ max_count[p] = 1
     /\ Cardinality(add_pks[p]) = 2
     /\ update_pks[p] = {}
     /\ add_pks[p] \subseteq objects
     /\ Len(history) = detect_len[p]) =>
      /\ Len(printed[p]) = 1
      /\ \A i \in add_pks[p] \ Range(printed[p]) :
           /\ Len(ledger[i]) = 0
           /\ i \in AddSet(HistoricalChangePks(history, tracker[last_look[p].row].last_updated))

\* C6: after release the tracker's last_updated is the largest last_updated of
\* the ledger, and some version record is at least that new.
C6_WatermarkIsLedgerMax ==
  \A p \in Procs :
    pc[p] = "done" =>
      LET w == tracker[last_look[p].row].last_updated
      IN  /\ \E i \in Ids : \E k \in 1..Len(ledger[i]) : ledger[i][k] = w
          /\ \A i \in Ids : \A k \in 1..Len(ledger[i]) : ledger[i][k] <= w
          /\ w <= Len(history)

\* C6, witness: a release with two ledger rows of different last_updated.
C6_Witness ==
  /\ pc[1] = "done"
  /\ \E i, j \in Ids : Len(ledger[i]) > 0 /\ Len(ledger[j]) > 0 /\ ledger[i][1] < ledger[j][1]

\* C7: no step lowers the last_updated of a tracker row, save the save() of a
\* lock with reset.
C7_WatermarkMonotone ==
  [][(~ \E p \in Procs : pc[p] = "lock_save" /\ reset[p]) =>
       \A k \in 1..Len(tracker) : tracker'[k].last_updated >= tracker[k].last_updated]_vars

\* C7, witness: a run with max_count and without reset has released a
\* watermark above the second version record.
C7_Witness ==
  /\ pc[1] = "done"
  /\ ~reset[1]
  /\ max_count[1] = 1
  /\ tracker[1].last_updated > 2

\* C8: unlock of a run that wrote nothing, on an empty ledger, does not raise.
C8_ReleaseOnEmptyLedger ==
  [][\A p \in Procs :
       (pc[p] = "unlock_read" /\ printed[p] = <<>> /\ AccountedPks(ledger) = {}) =>
         pc'[p] # "crashed"]_vars

\* C9: with skip_locks false, lock raises only while an acquire has not been
\* released.
C9_RefusedOnlyWhileHeld ==
  \A p \in Procs : (pc[p] = "refused" /\ ~skip_locks[p]) => unreleased

\* C10: two runs with skip_locks false are never both between lock and unlock.
C10_MutualExclusion ==
  \A p, q \in Procs :
    (p # q /\ ~skip_locks[p] /\ ~skip_locks[q]) => ~(Holding(p) /\ Holding(q))

\* C11: when lock() finds the row held (state 0) and skip_locks is off, the run
\* ends there, refused, and the step changes nothing: the tracker rows, the
\* ledger rows of this and of other content types, the backend index and the
\* output file are as before, and the run has sent no search and written no
\* record; this also with reset requested.
C11_RefusalHasNoEffect ==
  [][\A p \in Procs :
       (/\ pc[p] = "lock_get"
        /\ pc'[p] # "lock_get"
        /\ Len(tracker) = 1
        /\ tracker[1].state = 0
        /\ ~skip_locks[p])
       => /\ pc'[p] = "refused"
          /\ raised'[p] = "RuntimeError"
          /\ tracker' = tracker
          /\ ledger' = ledger
          /\ other_rows' = other_rows
          /\ index' = index
          /\ outfile' = outfile
          /\ search'[p] = NoSearch
          /\ printed'[p] = <<>>]_vars

\* A run with reset requested was refused while the ledger held rows
C11_Witness ==
  pc[1] = "refused" /\ reset[1] /\ AccountedPks(ledger) # {}

\* Every record of i up to p's get_actions is a Create or an Update, and there
\* is one
OnlyChanged(p, i) ==
  /\ \E k \in 1..detect_len[p] : history[k].id = i
  /\ \A k \in 1..detect_len[p] : history[k].id = i => history[k].type # "-"

\* C12: after lock() of a run with reset, the ledger has no row of the content
\* type, the lower bound of the window is prior_date (in memory and in the
\* tracker row) and the rows of other content types are the ones that were
\* there; get_actions of that run then puts every id whose records are all
\* Creates or Updates in add_pks, and none in update_pks or delete_pks.
C12_ResetStartsFromEpoch ==
  \A p \in Procs :
    reset[p] =>
      /\ pc[p] = "get_actions" =>
            /\ \A i \in Ids : ledger[i] = <<>>
            /\ last_look[p].last_updated = PriorDate
            /\ tracker[last_look[p].row].last_updated = PriorDate
            /\ other_rows = OtherRows
      /\ Reconciled(p) =>
            /\ \A i \in Ids : OnlyChanged(p, i) => i \in add_pks[p]
            /\ update_pks[p] = {}
            /\ delete_pks[p] = {}

\* A reset run classified ids after an earlier run had emitted records
C12_Witness ==
  Reconciled(1) /\ reset[1] /\ index # {} /\ add_pks[1] # {}

\* C13: when a run that writes to self.output_file has emitted n >= 1 records
\* and ended, the file holds exactly those n records, one line each, in the
\* order of emission (and nothing of earlier runs).
C13_FileHoldsEveryRecord ==
  \A p \in Procs :
    (pc[p] = "done" /\ output_file[p] /\ Len(printed[p]) >= 1) => outfile = printed[p]

\* C14: in every item get_values hands to add_items, historical_create_date is
\* the least and historical_last_change_date the greatest date over all the
\* version records of the item's pk (those at or below the watermark too),
\* historical_total_changes is the number of those records, and with one
\* record the two dates are equal and delta_days and average_days are 0.
C14_AttributesOverFullHistory ==
  \A p \in Procs : \A k \in 1..Len(items[p]) :
    LET it == items[p][k]
        ds == HistoryDates(history, it.pk)
    IN  /\ it.historical_create_date = SetMin(ds)
        /\ it.historical_last_change_date = SetMax(ds)
        /\ it.historical_total_changes = Cardinality(ds)
        /\ Cardinality(ds) = 1 =>
              /\ it.historical_create_date = it.historical_last_change_date
              /\ it.historical_delta_days = 0
              /\ it.historical_average_days.num = 0

\* An item has several records, one of them at or below the watermark
C14_Witness ==
  \E k \in 1..Len(items[1]) :
    /\ items[1][k].historical_total_changes >= 2
    /\ last_look[1].last_updated > PriorDate
    /\ items[1][k].historical_create_date <= last_look[1].last_updated

\* C15: in every state the ledger holds at most one row for each object_id of
\* the content type, with two runs of the type in add_items at once too.
C15_OneLedgerRowPerId ==
  \A i \in Ids : Len(ledger[i]) <= 1

\* C16: once the backend has answered a run's delete query with a FATAL
\* message, the run is over with an exception raised by create_search: it
\* polls no status, writes no record and no ledger row, and does not unlock.
C16_FatalAbortsRun ==
  \A p \in Procs :
    search[p].fatal =>
      /\ pc[p] = "crashed"
      /\ raised[p] # ""
      /\ search[p].state = "created"
      /\ printed[p] = <<>>

\* C17: a run with a non-empty delete batch gets to get_values, writes a record
\* or upserts a ledger row only after the backend has answered 200 to the poll
\* of its delete query; a run with an empty delete batch sends the backend
\* nothing (no login, no search).
C17_DeletesDoneBeforeAdds ==
  \A p \in Procs :
    /\ (/\ delete_batch[p] # {}
        /\ \/ printed[p] # <<>>
           \/ pc[p] \in {"get_values", "add_get", "add_create", "add_save"})
       => search[p].state = "ready"
    /\ delete_batch[p] = {} => search[p] = NoSearch

\* A run wrote a record after its delete query was reported complete
C17_Witness ==
  delete_batch[1] # {} /\ printed[1] # <<>> /\ search[1].state = "ready"

\* The run that last held the lock ended without unlock, and p, about to save
\* the tracker row in unlock, is the first run since to get that far
CompletesAfterAbort(p) == pc[p] = "unlock_save" /\ last_aborted

\* i has a Create or Update record newer than the watermark p acquired with
ChangedSinceAcquire(p, i) ==
  \E k \in 1..detect_len[p] :
    k > acquired_at[p] /\ history[k].id = i /\ history[k].type # "-"

\* i has a Delete record newer than the watermark p acquired with
DeletedSinceAcquire(p, i) ==
  \E k \in 1..detect_len[p] :
    k > acquired_at[p] /\ history[k].id = i /\ history[k].type = "-"

\* p has written a record of i, as an update if i had a ledger row at
\* get_actions and as an add if not
EmittedAsClassified(p, i) ==
  /\ i \in Range(printed[p])
  /\ i \in accounted_pks[p] => i \in update_pks[p]
  /\ i \notin accounted_pks[p] => i \in add_pks[p]

\* A run that ended between lock() and the end of unlock() left the tracker's
\* last_updated as it was when lock() returned
AbortKeepsWatermark ==
  \A p \in Procs :
    (pc[p] = "crashed" /\ locked[p]) =>
      Len(tracker) = 1 /\ tracker[1].last_updated = acquired_at[p]

RECURSIVE HasNull(_)
HasNull(json) ==
  \/ json.t = "null"
  \/ json.t = "list" /\ \E k \in 1..Len(json.v) : HasNull(json.v[k])

\* C19: a payload made by dump_result has no null at any level (the timestamp
\* and pk keys included, and the elements of lists), and a field whose value
\* is an empty string or an empty list has no key in the payload.
C19_NoNullInPayload ==
  dump_out # <<>> =>
    /\ \A k \in 1..Len(dump_out) : ~HasNull(dump_out[k].v)
    /\ LET value == ItemGet(dump_in, "name")
       IN  (value.t \in {"str", "list"} /\ value.v = <<>>)
             => \A k \in 1..Len(dump_out) : dump_out[k].k # "name"

\* C20: when a run has ended with its release, an entity that exists, was
\* never deleted, has a ledger row and has no record in the backend index (its
\* old record was deleted and its id cut off the add batch by max_count) is
\* still among the changed ids of the window the next run will read, so that
\* a later run re-inserts it without any new version record.
C20_CutOffUpdateComesBack ==
  \A p \in Procs :
    pc[p] = "done" =>
      \A i \in objects :
        (/\ Len(ledger[i]) > 0
         /\ i \notin index
         /\ \A k \in HistoryDates(history, i) : history[k].type # "-")
        => i \in HistoricalChangePks(history, tracker[1].last_updated)

\* C21: after a connect() call that returned without raising, the request
\* object has a session, a session key and the authorization headers; this
\* after any sequence of calls, one after a failed login included, and for an
\* object built with a session key.
C21_ConnectedAfterReturn ==
  \A p \in Procs :
    (conn_log[p] # <<>> /\ conn_log[p][Len(conn_log[p])] = "returned") =>
      /\ request[p].session
      /\ request[p].session_key # ""
      /\ request[p].headers

====
